---- MODULE Spec2Model ----
(***************************************************************************)
(* A model of app_india.py, the Streamlit dashboard over the cleaned      *)
(* India job-postings table.  One execution of the script is: load_data() *)
(* (memoised by st.cache_data), the sidebar widgets and the boolean-mask   *)
(* filter, and the report (metrics, aggregates, insights).  A user        *)
(* interaction re-runs the script from the top.                            *)
(*                                                                         *)
(* Numbers: salaries (LPA) and experience (years) are naturals; a missing  *)
(* cell, which pandas reads as NaN, is the value NaN below and every       *)
(* comparison treats it the way IEEE/pandas do (NaN compares false).       *)
(* A median is kept doubled (Median2) so that the mean of the two middle   *)
(* values stays an integer; a value formatted with one decimal is kept in  *)
(* tenths.  Float rounding error below the printed digit is not modelled.  *)
(* Charts that only hand a frame to plotly and feed nothing else           *)
(* (company counts, experience charts, pie/bar of counts) are left out.    *)
(***************************************************************************)
EXTENDS Integers, Sequences, FiniteSets, TLC

VARIABLES file, cache, reads, calls, pc, df, criteria, filtered_df, error,
          metrics, cat_salary, skills_df, insights, growth, divs

vars == <<file, cache, reads, calls, pc, df, criteria, filtered_df, error,
          metrics, cat_salary, skills_df, insights, growth, divs>>

report == <<metrics, cat_salary, skills_df, insights, growth, divs>>

----------------------------------------------------------------------------
(* Bounds of the model *)

MaxRows == 2
MaxGrowthRows == 4
MaxCatRows == 5
MaxSkillRows == 4
MaxSessionRows == 1
NumSkillCols == 13
MaxReads == 3
MaxCalls == 3

(* Program constants *)

MinCatCount == 5
TopCategories == 10
TopSkills == 12
TopMustHave == 3
TopComposition == 3

(* A missing cell as pandas.read_csv returns it *)
NaN == -1
NoText == "NaN"
NoCache == [filled |-> FALSE, table |-> <<>>]

----------------------------------------------------------------------------
(* Helpers over sequences and numbers *)

Min2(a, b) == IF a <= b THEN a ELSE b

Head_(s, n) == SubSeq(s, 1, Min2(n, Len(s)))

RECURSIVE SumSeq(_)
SumSeq(s) == IF s = <<>> THEN 0 ELSE Head(s) + SumSeq(Tail(s))

RECURSIVE SeqOfSet(_)
SeqOfSet(S) ==
  IF S = {} THEN <<>>
  ELSE LET x == CHOOSE y \in S : \A z \in S : y <= z
       IN <<x>> \o SeqOfSet(S \ {x})

(* round(num/den) to the nearest integer, ties to even, as Python's format *)
(* and numpy's round do; num >= 0, den > 0 *)
RoundHalfEven(num, den) ==
  LET q == num \div den
      r == num % den
  IN  IF 2 * r < den THEN q
      ELSE IF 2 * r > den THEN q + 1
      ELSE IF q % 2 = 0 THEN q ELSE q + 1

----------------------------------------------------------------------------
(* The input file and load_data *)

Categories == {"Data Analyst", "Data Scientist"}
Seniorities == {"Junior", "Senior"}
SkillCols == 1..NumSkillCols

Posting(t, c, s, sal, e, sk) ==
  [job_title |-> t, job_category |-> c, seniority |-> s,
   avg_salary_lpa |-> sal, min_experience_clean |-> e, skills |-> sk]

(* pd.read_csv: the rows of the file under a RangeIndex 0..n-1 *)
ReadCsv(f) ==
  [i \in 1..Len(f) |->
     [index |-> i - 1, job_title |-> f[i].job_title,
      job_category |-> f[i].job_category, seniority |-> f[i].seniority,
      avg_salary_lpa |-> f[i].avg_salary_lpa,
      min_experience_clean |-> f[i].min_experience_clean,
      skills |-> f[i].skills]]

(* A mutant of load_data: the decorator is missing, every call reads *)
load_data_uncached ==
  [table |-> ReadCsv(file), reads |-> reads + 1,
   store |-> [filled |-> TRUE, table |-> ReadCsv(file)]]

(* @st.cache_data load_data(): the first call reads the file and stores *)
(* the table; a later call returns the stored table *)
load_data ==
  IF ~cache.filled
  THEN [table |-> ReadCsv(file), reads |-> reads + 1,
        store |-> [filled |-> TRUE, table |-> ReadCsv(file)]]
  ELSE [table |-> cache.table, reads |-> reads, store |-> cache]

----------------------------------------------------------------------------
(* Series operations used by the filter *)

(* A mutant of IsIn: an empty selection means no category filter *)
IsInEmptyMeansAll(x, values) == values = {} \/ x \in values

(* Series.isin(values) on one cell *)
IsIn(x, values) == x \in values

(* A mutant of Between: written as not (x < left or x > right), which a *)
(* missing value passes *)
BetweenNaNPasses(x, left, right) ==
  x = NaN \/ (left # NaN /\ right # NaN /\ left <= x /\ x <= right)

(* A mutant of Between: the right bound is exclusive *)
BetweenRightOpen(x, left, right) ==
  x # NaN /\ left # NaN /\ right # NaN /\ left <= x /\ x < right

(* Series.between(left, right), inclusive="both", on one cell: *)
(* (x >= left) & (x <= right), false for a missing operand *)
Between(x, left, right) ==
  x # NaN /\ left # NaN /\ right # NaN /\ left <= x /\ x <= right

(* A mutant of BoolIndex: the mask is applied one position late *)
BoolIndexShifted(frame, mask) ==
  LET F[i \in 0..Len(frame)] ==
        IF i = 0 THEN <<>>
        ELSE IF i > 1 /\ mask[i - 1] THEN Append(F[i - 1], frame[i])
        ELSE F[i - 1]
  IN  F[Len(frame)]

(* frame[mask]: the rows whose mask entry is true, in frame order, each *)
(* keeping its index label *)
BoolIndex(frame, mask) ==
  LET F[i \in 0..Len(frame)] ==
        IF i = 0 THEN <<>>
        ELSE IF mask[i] THEN Append(F[i - 1], frame[i])
        ELSE F[i - 1]
  IN  F[Len(frame)]

(* Lines 63-71: the three-way mask, then the seniority mask unless 'All' *)
ApplyFilters(d, c) ==
  LET mask == [i \in 1..Len(d) |->
                 /\ IsIn(d[i].job_category, c.selected_categories)
                 /\ Between(d[i].avg_salary_lpa, c.salary_range[1], c.salary_range[2])
                 /\ Between(d[i].min_experience_clean, c.exp_range[1], c.exp_range[2])]
      f1 == BoolIndex(d, mask)
  IN  IF c.selected_seniority # "All"
      THEN BoolIndex(f1, [i \in 1..Len(f1) |-> f1[i].seniority = c.selected_seniority])
      ELSE f1

----------------------------------------------------------------------------
(* The sidebar widgets *)

Present(d, col) == {d[i][col] : i \in 1..Len(d)} \ {NaN}

(* Series.min() / Series.max(): missing values skipped, NaN when none left *)
ColMin(d, col) ==
  IF Present(d, col) = {} THEN NaN
  ELSE CHOOSE x \in Present(d, col) : \A y \in Present(d, col) : x <= y

ColMax(d, col) ==
  IF Present(d, col) = {} THEN NaN
  ELSE CHOOSE x \in Present(d, col) : \A y \in Present(d, col) : x >= y

all_categories(d) == {d[i].job_category : i \in 1..Len(d)}

seniority_options(d) == {"All"} \cup {d[i].seniority : i \in 1..Len(d)}

(* What st.slider can return: an ordered pair of stops within its bounds *)
SliderValues(lo, hi) == {<<a, b>> \in (lo..hi) \X (lo..hi) : a <= b}

(* The salary slider gets float('nan') bounds when no salary is present; *)
(* streamlit either raises on them or hands the default (nan, nan) back *)
SalarySliderOutcomes(d) ==
  IF ColMin(d, "avg_salary_lpa") = NaN THEN {"raise", "nan"} ELSE {"value"}

SalaryRanges(d, outcome) ==
  IF outcome = "nan" THEN {<<NaN, NaN>>}
  ELSE SliderValues(ColMin(d, "avg_salary_lpa"), ColMax(d, "avg_salary_lpa"))

NoCriteria ==
  [selected_categories |-> {}, selected_seniority |-> "All",
   salary_range |-> <<NaN, NaN>>, exp_range |-> <<NaN, NaN>>]

----------------------------------------------------------------------------
(* Aggregates over the filtered view *)

Inf == -2
NA == [kind |-> "N/A", tenths |-> 0]
NanText == [kind |-> "nan", tenths |-> 0]

Column(d, col) == [i \in 1..Len(d) |-> d[i][col]]

DropNa(s) == SelectSeq(s, LAMBDA x : x # NaN)

(* Series.median(), doubled: missing values skipped, NaN when none left *)
Median2(s) ==
  LET v == SortSeq(DropNa(s), LAMBDA a, b : a < b)
      n == Len(v)
  IN  IF n = 0 THEN NaN
      ELSE IF n % 2 = 1 THEN 2 * v[(n + 1) \div 2]
      ELSE v[n \div 2] + v[n \div 2 + 1]

(* f"{num/den:.1f}": the text nan for a missing value *)
Format1(num, den) ==
  IF num = NaN THEN NanText
  ELSE [kind |-> "num", tenths |-> RoundHalfEven(num * 10, den)]

(* Series.mean() formatted with one decimal *)
FormatMean(s) ==
  IF DropNa(s) = <<>> THEN NanText
  ELSE Format1(SumSeq(DropNa(s)), Len(DropNa(s)))

(* x / len(filtered_df) * 100, rounded to `digits` decimals (scale 10^digits); *)
(* a zero divisor gives inf *)
PercentOf(count, size, scale) ==
  IF size = 0 THEN Inf ELSE RoundHalfEven(count * 100 * scale, size)

Rows(d, col, v) == SelectSeq(d, LAMBDA r : r[col] = v)

(* Lines 78-91 and 110-111: the scalar metrics and the histogram's median line *)
MainMetrics(v) ==
  LET med == Median2(Column(v, "avg_salary_lpa"))
  IN  [total_jobs |-> Len(v),
       median_salary |-> Format1(med, 2),
       avg_exp |-> FormatMean(Column(v, "min_experience_clean")),
       vline_x |-> med,
       vline_text |-> Format1(med, 2)]

(* groupby(...).agg({'job_title': 'count'}): the non-missing job_title cells *)
GroupCount(g) == Len(SelectSeq(g, LAMBDA r : r.job_title # NoText))

(* Lines 140-143: one row per category of the view *)
CatGroups(v) ==
  {[job_category |-> c,
    avg_salary_lpa2 |-> Median2(Column(Rows(v, "job_category", c), "avg_salary_lpa")),
    count |-> GroupCount(Rows(v, "job_category", c))] : c \in all_categories(v)}

(* Line 144: count >= 5, sort_values descending (ties in any order), head(10) *)
CatSalaryResults(v) ==
  LET G == {g \in CatGroups(v) : g.count >= MinCatCount}
      n == Cardinality(G)
  IN  {Head_(s, TopCategories) :
         s \in {t \in [1..n -> G] :
                  /\ \A i, j \in 1..n : i # j => t[i] # t[j]
                  /\ \A i, j \in 1..n : i < j => t[i].avg_salary_lpa2 >= t[j].avg_salary_lpa2}}

(* A mutant of SkillKept: the test count > 0 written count >= 0 *)
SkillKeptNonNegative(count) == count >= 0

(* Line 171 *)
SkillKept(count) == count > 0

SkillSum(v, col) == Cardinality({i \in 1..Len(v) : col \in v[i].skills})

(* Lines 166-172: the positive sums, in column order *)
skill_counts(v) ==
  LET kept == SeqOfSet({col \in SkillCols : SkillKept(SkillSum(v, col))})
  IN  [k \in 1..Len(kept) |-> [Skill |-> kept[k], Count |-> SkillSum(v, kept[k])]]

(* A mutant of top_skills: sorted ascending *)
top_skills_ascending(v) ==
  Head_(SortSeq(skill_counts(v),
                LAMBDA a, b : a.Count < b.Count \/ (a.Count = b.Count /\ a.Skill < b.Skill)),
        TopSkills)

(* Line 174: a stable sort by count, descending, cut to the first 12 *)
top_skills(v) ==
  Head_(SortSeq(skill_counts(v),
                LAMBDA a, b : a.Count > b.Count \/ (a.Count = b.Count /\ a.Skill < b.Skill)),
        TopSkills)

(* Lines 176-181: the table, or nothing when top_skills is empty *)
SkillsTable(v) ==
  LET top == top_skills(v)
  IN  [k \in 1..Len(top) |->
         [Skill |-> top[k].Skill, Count |-> top[k].Count,
          Percentage |-> PercentOf(top[k].Count, Len(v), 10)]]

(* Series.value_counts(): descending counts, ties in order of first appearance *)
FirstAt(v, c) == CHOOSE i \in 1..Len(v) : v[i].job_category = c /\ \A j \in 1..(i - 1) : v[j].job_category # c

CategoryCounts(v) ==
  LET cats == SeqOfSet({FirstAt(v, c) : c \in all_categories(v)})
      rows == [k \in 1..Len(cats) |->
                 [Category |-> v[cats[k]].job_category, first |-> cats[k],
                  Count |-> Len(Rows(v, "job_category", v[cats[k]].job_category))]]
  IN  SortSeq(rows, LAMBDA a, b : a.Count > b.Count \/ (a.Count = b.Count /\ a.first < b.first))

(* Series.mode()[0]: the most frequent value, the smallest of several *)
Mode0(v) ==
  LET n(c) == Len(Rows(v, "job_category", c))
      best == {c \in all_categories(v) : \A o \in all_categories(v) : n(c) >= n(o)}
  IN  CHOOSE c \in best : \A o \in best :
        c = o \/ (c = "Data Analyst" /\ o = "Data Scientist")

(* Lines 328-341 and 364-369 *)
Insights(v) ==
  LET top3 == Head_(top_skills(v), TopMustHave)
      comp == Head_(CategoryCounts(v), TopComposition)
  IN  [must_have |-> [k \in 1..Len(top3) |->
                        [Skill |-> top3[k].Skill, pct |-> PercentOf(top3[k].Count, Len(v), 1)]],
       top_cat |-> IF Len(v) > 0 THEN Mode0(v) ELSE "N/A",
       composition |-> [k \in 1..Len(comp) |->
                          [Category |-> comp[k].Category,
                           pct |-> PercentOf(comp[k].Count, Len(v), 10)]]]

(* The divisions by len(filtered_df) the script evaluates, with their divisor *)
SizeDivisions(v) ==
  (IF Len(top_skills(v)) > 0 THEN {[site |-> "skills_df", divisor |-> Len(v)]} ELSE {})
  \cup (IF Len(Head_(top_skills(v), TopMustHave)) > 0
        THEN {[site |-> "must_have", divisor |-> Len(v)]} ELSE {})
  \cup (IF Len(Head_(CategoryCounts(v), TopComposition)) > 0
        THEN {[site |-> "composition", divisor |-> Len(v)]} ELSE {})

NoGrowth == [written |-> FALSE, num |-> 0, den |-> 1, junior2 |-> NaN, senior2 |-> NaN]

(* A mutant of GrowthGuard: the test junior_sal > 0 is missing *)
GrowthGuardNoZeroTest(junior2, senior2) == junior2 # NaN /\ senior2 # NaN

(* Line 358: pd.notna(junior_sal) and pd.notna(senior_sal) and junior_sal > 0 *)
GrowthGuard(junior2, senior2) == junior2 # NaN /\ senior2 # NaN /\ junior2 > 0

(* Lines 355-362: growth_pct = (senior_sal - junior_sal) / junior_sal * 100, *)
(* kept as the fraction num/den over the doubled medians *)
Growth(v) ==
  LET junior2 == Median2(Column(Rows(v, "seniority", "Junior"), "avg_salary_lpa"))
      senior2 == Median2(Column(Rows(v, "seniority", "Senior"), "avg_salary_lpa"))
  IN  IF GrowthGuard(junior2, senior2)
      THEN [written |-> TRUE, num |-> (senior2 - junior2) * 100, den |-> junior2,
            junior2 |-> junior2, senior2 |-> senior2]
      ELSE NoGrowth

----------------------------------------------------------------------------
(* The script, one execution after another *)

NoMetrics ==
  [total_jobs |-> 0, median_salary |-> NA, avg_exp |-> NA, vline_x |-> NaN, vline_text |-> NA]

NoInsights == [must_have |-> <<>>, top_cat |-> "N/A", composition |-> <<>>]

Fresh ==
  /\ df = <<>>
  /\ criteria = NoCriteria
  /\ filtered_df = <<>>
  /\ error = ""
  /\ metrics = NoMetrics
  /\ cat_salary = <<>>
  /\ skills_df = <<>>
  /\ insights = NoInsights
  /\ growth = NoGrowth
  /\ divs = {}

InitOver(RowSet, n) ==
  /\ file \in UNION {[1..k -> RowSet] : k \in 0..n}
  /\ cache = NoCache
  /\ reads = 0
  /\ calls = 0
  /\ pc = "start"
  /\ Fresh

(* Line 19: df = load_data() *)
LoadData ==
  /\ pc = "start"
  /\ load_data.reads <= MaxReads
  /\ df' = load_data.table
  /\ cache' = load_data.store
  /\ reads' = load_data.reads
  /\ calls' = calls + 1
  /\ pc' = "loaded"
  /\ UNCHANGED <<file, criteria, filtered_df, error, report>>

(* Lines 33-73: the widgets (float(min), int(max) and st.slider can raise on *)
(* a column with no value), then the filter *)
Sidebar ==
  /\ pc = "loaded"
  /\ \E outcome \in SalarySliderOutcomes(df) :
       IF outcome = "raise" \/ ColMax(df, "min_experience_clean") = NaN
       THEN /\ pc' = "crashed"
            /\ error' = IF outcome = "raise" THEN "StreamlitAPIException" ELSE "ValueError"
            /\ UNCHANGED <<criteria, filtered_df>>
       ELSE \E cats \in SUBSET all_categories(df),
               sen \in seniority_options(df),
               sr \in SalaryRanges(df, outcome),
               er \in SliderValues(0, ColMax(df, "min_experience_clean")) :
              LET c == [selected_categories |-> cats, selected_seniority |-> sen,
                        salary_range |-> sr, exp_range |-> er]
              IN  /\ criteria' = c
                  /\ filtered_df' = ApplyFilters(df, c)
                  /\ pc' = "filtered"
                  /\ UNCHANGED error
  /\ UNCHANGED <<file, cache, reads, calls, df, report>>

(* Lines 75-369: metrics, aggregates and insights over filtered_df *)
Report ==
  /\ pc = "filtered"
  /\ metrics' = MainMetrics(filtered_df)
  /\ \E cs \in CatSalaryResults(filtered_df) : cat_salary' = cs
  /\ skills_df' = SkillsTable(filtered_df)
  /\ insights' = Insights(filtered_df)
  /\ growth' = Growth(filtered_df)
  /\ divs' = SizeDivisions(filtered_df)
  /\ pc' = "done"
  /\ UNCHANGED <<file, cache, reads, calls, df, criteria, filtered_df, error>>

(* A user interaction: the script runs again from the top; only the *)
(* st.cache_data store outlives the run *)
Interact ==
  /\ pc \in {"done", "crashed"}
  /\ calls < MaxCalls
  /\ pc' = "start"
  /\ df' = <<>>
  /\ criteria' = NoCriteria
  /\ filtered_df' = <<>>
  /\ error' = ""
  /\ metrics' = NoMetrics
  /\ cat_salary' = <<>>
  /\ skills_df' = <<>>
  /\ insights' = NoInsights
  /\ growth' = NoGrowth
  /\ divs' = {}
  /\ UNCHANGED <<file, cache, reads, calls>>

Run == LoadData \/ Sidebar \/ Report

Next == Run

NextSession == Run \/ Interact

(* Input families: every combination of the present values of the four *)
(* filtered columns, and postings with a missing salary, a missing *)
(* experience, or both *)
FilterRows ==
  {Posting("Analyst", c, s, sal, e, {}) :
     c \in Categories, s \in Seniorities, sal \in {1, 2}, e \in {0, 1}}
  \cup {Posting("Analyst", "Data Analyst", "Junior", NaN, e, {}) : e \in {NaN, 0, 1}}
  \cup {Posting("Analyst", "Data Analyst", "Junior", sal, NaN, {}) : sal \in {1, 2}}

(* seniority against salary, a zero salary included *)
GrowthRows ==
  {Posting("Analyst", "Data Analyst", s, sal, 0, {}) : s \in Seniorities, sal \in {0, 2}}

(* category against a present or missing job_title *)
CatRows ==
  {Posting(t, c, "Junior", 1, 0, {}) : t \in {"Analyst", NoText}, c \in Categories}

(* skill indicators: none, the last column, the first and the last, all *)
SkillRows ==
  {Posting("Analyst", "Data Analyst", "Junior", 1, 0, sk) :
     sk \in {{}, {NumSkillCols}, {1, NumSkillCols}, SkillCols}}

SessionRows ==
  {Posting("Analyst", c, "Junior", sal, e, {}) :
     c \in Categories, sal \in {NaN, 1}, e \in {NaN, 0}}

Init == InitOver(FilterRows, MaxRows)
InitGrowth == InitOver(GrowthRows, MaxGrowthRows)
InitCat == InitOver(CatRows, MaxCatRows)
InitSkills == InitOver(SkillRows, MaxSkillRows)
InitSession == InitOver(SessionRows, MaxSessionRows)

Spec == Init /\ [][Next]_vars
SpecGrowth == InitGrowth /\ [][Next]_vars
SpecCat == InitCat /\ [][Next]_vars
SpecSkills == InitSkills /\ [][Next]_vars
SpecSession == InitSession /\ [][NextSession]_vars

----------------------------------------------------------------------------
(* Properties *)

Filtered == pc \in {"filtered", "done"}

InView(r) == \E k \in 1..Len(filtered_df) : filtered_df[k] = r

(* C1: the filtered view is a subsequence of the loaded table, and a row *)
(* is kept exactly when its category is selected, its salary and its *)
(* experience lie within the closed intervals, and the seniority selector *)
(* is 'All' or equals the row's seniority. *)
C1_FilterExact ==
  Filtered =>
    /\ \A k \in 1..Len(filtered_df) : \E i \in 1..Len(df) : filtered_df[k] = df[i]
    /\ \A k, l \in 1..Len(filtered_df) : k < l => filtered_df[k].index < filtered_df[l].index
    /\ \A i \in 1..Len(df) :
         InView(df[i]) <=>
           /\ df[i].job_category \in criteria.selected_categories
           /\ df[i].avg_salary_lpa # NaN
           /\ criteria.salary_range[1] # NaN
           /\ criteria.salary_range[1] <= df[i].avg_salary_lpa
           /\ df[i].avg_salary_lpa <= criteria.salary_range[2]
           /\ df[i].min_experience_clean # NaN
           /\ criteria.exp_range[1] <= df[i].min_experience_clean
           /\ df[i].min_experience_clean <= criteria.exp_range[2]
           /\ (criteria.selected_seniority = "All"
               \/ df[i].seniority = criteria.selected_seniority)

(* a view that keeps one row and drops another on the upper salary bound *)
C1_Witness ==
  /\ pc = "filtered"
  /\ Len(filtered_df) = 1
  /\ Len(df) = 2
  /\ filtered_df[1].avg_salary_lpa = criteria.salary_range[2]
  /\ \E i \in 1..2 : df[i].avg_salary_lpa > criteria.salary_range[2]

(* C2: with an empty view the median-salary metric shows "N/A", and *)
(* neither the average-experience metric nor the histogram's median line *)
(* carries a NaN.  Stated for a view that the criteria emptied, the *)
(* salary slider having returned ordinary bounds. *)
C2_EmptyViewPlaceholders ==
  (pc = "done" /\ Len(filtered_df) = 0 /\ criteria.salary_range[1] # NaN) =>
    /\ metrics.median_salary = NA
    /\ metrics.avg_exp.kind # "nan"
    /\ metrics.vline_x # NaN
    /\ metrics.vline_text.kind # "nan"

(* C3: an empty category selection gives an empty view, whatever the other *)
(* criteria are, and the filter raises nothing. *)
C3_EmptySelectionEmptyView ==
  (Filtered /\ criteria.selected_categories = {}) =>
    (filtered_df = <<>> /\ error = "")

C3_Witness ==
  /\ pc = "filtered"
  /\ criteria.selected_categories = {}
  /\ criteria.selected_seniority # "All"
  /\ Len(df) = 2
  /\ \A i \in 1..2 : df[i].avg_salary_lpa # NaN /\ df[i].min_experience_clean # NaN

(* C8: filtering the filtered view again with the same criteria returns it *)
(* unchanged, rows and order. *)
C8_FilterIdempotent ==
  Filtered => ApplyFilters(filtered_df, criteria) = filtered_df

C8_Witness ==
  /\ pc = "filtered"
  /\ Len(df) = 2
  /\ Len(filtered_df) = 1
  /\ criteria.selected_seniority # "All"
  /\ filtered_df[1].index = 1

(* C9: no row with a missing salary or experience is ever in the view; so *)
(* the view equals the loaded table only if the table has no such row. *)
C9_MissingNeverKept ==
  Filtered =>
    /\ \A k \in 1..Len(filtered_df) :
         filtered_df[k].avg_salary_lpa # NaN /\ filtered_df[k].min_experience_clean # NaN
    /\ (filtered_df = df =>
          \A i \in 1..Len(df) :
            df[i].avg_salary_lpa # NaN /\ df[i].min_experience_clean # NaN)

(* every category selected, 'All', both sliders at their defaults, and a *)
(* row with a missing value: the view is not the whole table *)
C9_Witness ==
  /\ pc = "filtered"
  /\ criteria.selected_categories = all_categories(df)
  /\ criteria.selected_seniority = "All"
  /\ criteria.salary_range = <<ColMin(df, "avg_salary_lpa"), ColMax(df, "avg_salary_lpa")>>
  /\ criteria.salary_range[1] # NaN
  /\ criteria.exp_range = <<0, ColMax(df, "min_experience_clean")>>
  /\ \E i \in 1..Len(df) : df[i].avg_salary_lpa = NaN
  /\ \E i \in 1..Len(df) : df[i].min_experience_clean = NaN
  /\ filtered_df # df

SalariesOf(level) == Column(Rows(filtered_df, "seniority", level), "avg_salary_lpa")

(* C4: the growth line is written as (Senior median - Junior median) / *)
(* Junior median * 100, and nothing is written or divided when the view *)
(* has no Junior row, no Senior row, or a zero Junior median. *)
C4_GrowthGuarded ==
  pc = "done" =>
    /\ (\/ Len(SalariesOf("Junior")) = 0
        \/ Len(SalariesOf("Senior")) = 0
        \/ Median2(SalariesOf("Junior")) = 0) => ~growth.written
    /\ growth.written =>
         /\ growth.den = Median2(SalariesOf("Junior"))
         /\ growth.den # 0
         /\ growth.num = (Median2(SalariesOf("Senior")) - Median2(SalariesOf("Junior"))) * 100

(* Junior and Senior rows are both in the view and the Junior median is 0 *)
C4_Witness ==
  /\ pc = "done"
  /\ Len(SalariesOf("Junior")) > 0
  /\ Len(SalariesOf("Senior")) > 0
  /\ Median2(SalariesOf("Senior")) > 0
  /\ Median2(SalariesOf("Junior")) = 0
  /\ ~growth.written

ViewCount(c) == Len(Rows(filtered_df, "job_category", c))

(* C5: cat_salary holds exactly the categories with at least 5 rows in the *)
(* view, each with the median salary of its rows, by descending median, *)
(* cut to the first 10. *)
C5_CatSalaryExact ==
  pc = "done" =>
    LET Q == {c \in all_categories(filtered_df) : ViewCount(c) >= 5}
        listed == {cat_salary[k].job_category : k \in 1..Len(cat_salary)}
        med(c) == Median2(Column(Rows(filtered_df, "job_category", c), "avg_salary_lpa"))
    IN  /\ Len(cat_salary) = Min2(Cardinality(Q), 10)
        /\ listed \subseteq Q
        /\ Cardinality(Q) <= 10 => listed = Q
        /\ \A k \in 1..Len(cat_salary) :
             cat_salary[k].avg_salary_lpa2 = med(cat_salary[k].job_category)
        /\ \A k, l \in 1..Len(cat_salary) :
             k < l => cat_salary[k].avg_salary_lpa2 >= cat_salary[l].avg_salary_lpa2
        /\ \A c \in Q \ listed : \A k \in 1..Len(cat_salary) :
             med(c) <= cat_salary[k].avg_salary_lpa2

(* C6: the skill table lists only skill columns with a positive sum over *)
(* the view, by descending count, at most 12 of them; no count exceeds the *)
(* view size, and each percentage is count / size * 100 rounded to one *)
(* decimal, within [0, 100] (3 of 4 gives 75.0). *)
C6_SkillTable ==
  pc = "done" =>
    /\ Len(skills_df) <= 12
    /\ \A k, l \in 1..Len(skills_df) :
         k < l => (skills_df[k].Skill # skills_df[l].Skill
                   /\ skills_df[k].Count >= skills_df[l].Count)
    /\ \A k \in 1..Len(skills_df) :
         LET r == skills_df[k]
             n == Len(filtered_df)
         IN  /\ r.Skill \in SkillCols
             /\ r.Count = Cardinality({i \in 1..n : r.Skill \in filtered_df[i].skills})
             /\ r.Count > 0
             /\ r.Count <= n
             /\ r.Percentage >= 0
             /\ r.Percentage <= 1000
             /\ 2 * (r.Percentage * n - r.Count * 1000) <= n
             /\ 2 * (r.Count * 1000 - r.Percentage * n) <= n
             /\ (r.Count = 3 /\ n = 4) => r.Percentage = 750

(* 13 columns have a positive sum, 12 are listed, the first with 3 of 4 *)
C6_Witness ==
  /\ pc = "done"
  /\ Len(filtered_df) = 4
  /\ Cardinality({c \in SkillCols : SkillSum(filtered_df, c) > 0}) > 12
  /\ Len(skills_df) = 12
  /\ skills_df[1].Count = 3
  /\ skills_df[1].Percentage = 750
  /\ skills_df[2].Count = 1

(* C7: the file is read by the first load_data call only; a later call *)
(* returns the stored table, and no step changes the stored table, the *)
(* table of the running script, or the file. *)
C7_LoadedOnce ==
  [][/\ file' = file
     /\ cache.filled => (cache' = cache /\ reads' = reads)
     /\ reads' <= 1
     /\ (pc = "start" /\ pc' = "loaded") =>
          (df' = cache'.table /\ cache'.filled /\ cache'.table = ReadCsv(file))
     /\ (pc # "start" /\ pc' # "start") => df' = df]_vars

(* the script has run twice and more; the file was read once *)
C7_Witness ==
  /\ calls >= 2
  /\ pc = "done"
  /\ reads = 1
  /\ Len(df) > 0
  /\ df = cache.table

(* C10: every division by len(filtered_df) has a positive divisor: with an *)
(* empty view top_skills and the category counts are empty and none of the *)
(* three divisions is evaluated. *)
C10_NoZeroDivisor ==
  pc = "done" =>
    /\ \A d \in divs : d.divisor > 0
    /\ Len(filtered_df) = 0 =>
         (divs = {} /\ skills_df = <<>> /\ insights.must_have = <<>>
          /\ insights.composition = <<>>)
    /\ \A k \in 1..Len(skills_df) : skills_df[k].Percentage # Inf
    /\ \A k \in 1..Len(insights.must_have) : insights.must_have[k].pct # Inf
    /\ \A k \in 1..Len(insights.composition) : insights.composition[k].pct # Inf

(* all three divisions were evaluated *)
C10_Witness ==
  /\ pc = "done"
  /\ {d.site : d \in divs} = {"skills_df", "must_have", "composition"}
  /\ Len(insights.must_have) = 3

====
